---------------------------- MODULE Spec2Model ----------------------------
(***************************************************************************)
(* Model of the Teams alerting system (src/alert.py) and of the custom     *)
(* metrics exporter (src/custom_exporter.py).                              *)
(*                                                                         *)
(* alert.py runs a TeamsAlerter shared by a monitoring thread              *)
(* (MetricMonitor.start_monitoring) and a Flask server (handle_alert);     *)
(* custom_exporter.py is a separate process (main_loop).  Each of the      *)
(* three is given its own specification over the variables below; the      *)
(* variables a specification does not own stay at their initial value.     *)
(*                                                                         *)
(* Floats are modelled by integers: the code only compares and formats     *)
(* them.  Wall-clock stamps inside alert entries are left out.             *)
(***************************************************************************)
EXTENDS Integers, Sequences, FiniteSets, TLC

(***************************************************************************)
(* Bounds of the model.                                                    *)
(***************************************************************************)
MaxHistory == 3
MaxRun == 2
MaxBatch == 2
MaxTicks == 2

(***************************************************************************)
(* Program constants.                                                      *)
(***************************************************************************)
MONITORING_INTERVAL == 30
FALLBACK_INTERVAL == 10
EXPORT_INTERVAL == 20
ASTANA_POPULATION == 1300000

VARIABLES
    \* ---- TeamsAlerter ----
    alert_history,   \* self.alert_history: sequence of entries
    sendCalls,       \* observer: calls made by the latest operation, in order
    trueReturns,     \* observer: number of send_alert calls that returned True
    \* ---- MetricMonitor ----
    alert_states,    \* self.alert_states
    mpc,             \* position of start_monitoring: "check" | "sleep"
    evaluated,       \* number of rule blocks of check_alerts run in this call
    lastVal,         \* value query_prometheus returned to the latest rule block
    outcome,         \* how the latest check_alerts call ended: none|returned|raised
    delay,           \* argument of the time.sleep the loop is in (0: not asleep)
    failRun,         \* observer: consecutive iterations that ended in the handler
    watch,           \* observer: the rule whose runs are counted
    breachRun,       \* observer: consecutive calls of check_alerts, none of which
                     \*   raised, in which the watched rule was in breach
    notifyRun,       \* observer: the same, in which its wrapper was invoked
    \* ---- Flask server, POST /alert ----
    request,         \* the request handle_alert is answering (NoRequest: none)
    response,        \* what handle_alert returned for it: [code, text]
    served,          \* observer: per element processed without an exception, in
                     \*   list order, the alerter calls made for it
    historyAtPost,   \* observer: len(alert_history) when the request arrived
    firstPost,       \* observer: when the request is a client's second post of
                     \*   a body answered 500, what the first post did
    \* ---- custom_exporter.py ----
    gauges,          \* the value of every Gauge, by variable name
    error_counter,   \* api_errors_total, by api_name
    api_response_time,  \* number of observations of the histogram, by api_name
    now,             \* time.time(), in seconds since the process started
    epc,             \* position of main_loop
    fetched,         \* observer: the fetches run in this tick, with their answers
    errorsAtTick     \* observer: error_counter when this tick began

alerterVars == <<alert_history, sendCalls, trueReturns>>
monitorVars == <<alert_states, mpc, evaluated, lastVal, outcome, delay,
                 failRun, watch, breachRun, notifyRun>>
serverVars == <<request, response, served, historyAtPost, firstPost>>
exporterVars == <<gauges, error_counter, api_response_time, now, epc, fetched,
                  errorsAtTick>>
vars == <<alerterVars, monitorVars, serverVars, exporterVars>>

Min(a, b) == IF a < b THEN a ELSE b

(***************************************************************************)
(* The webhook: what requests.post does for one call.                      *)
(***************************************************************************)
HttpAnswer(code) == [kind |-> "response", code |-> code]
TransportError == [kind |-> "error", code |-> 0]
WebhookOutcomes == {HttpAnswer(200), HttpAnswer(204), HttpAnswer(500), TransportError}

(***************************************************************************)
(* TeamsAlerter.send_alert                                                 *)
(***************************************************************************)
colors(alert_type) ==
    CASE alert_type = "info" -> "0076D7"
      [] alert_type = "warning" -> "FF8C00"
      [] alert_type = "error" -> "D83B01"
      [] alert_type = "success" -> "107C10"
      [] OTHER -> "0076D7"

\* Mutant: any 2xx answer counts as delivered (response.ok).
send_alert_any2xx(al, title, message, alert_type, facts, post) ==
    LET ok == post.kind = "response" /\ post.code \in 200..299
        call == [title |-> title, alert_type |-> alert_type,
                 color |-> colors(alert_type), wrapper |-> facts.wrapper,
                 metric |-> facts.Metric, post |-> post,
                 ret |-> IF ok THEN "True" ELSE "False"]
    IN [hist |-> IF ok THEN Append(al.hist, [status |-> "sent"]) ELSE al.hist,
        calls |-> Append(al.calls, call)]

\* The alerter after one send_alert call.  al is [hist, calls]: the history and
\* the calls the running operation has made so far; the call is recorded with
\* what requests.post did (post) and what send_alert returned (ret: "True" or
\* "False"; the try/except lets no exception out).  An entry of the history is
\* modelled by its status field; its title and time are payload.
send_alert(al, title, message, alert_type, facts, post) ==
    LET ok == post.kind = "response" /\ post.code = 200
        call == [title |-> title, alert_type |-> alert_type,
                 color |-> colors(alert_type), wrapper |-> facts.wrapper,
                 metric |-> facts.Metric, post |-> post,
                 ret |-> IF ok THEN "True" ELSE "False"]
    IN [hist |-> IF ok THEN Append(al.hist, [status |-> "sent"]) ELSE al.hist,
        calls |-> Append(al.calls, call)]

database_alert(al, metric, value, threshold, message, post) ==
    send_alert(al, "Database Alert", message, "error",
               [wrapper |-> "database_alert", Metric |-> metric], post)

system_alert(al, metric, value, threshold, message, post) ==
    send_alert(al, "System Alert", message, "warning",
               [wrapper |-> "system_alert", Metric |-> metric], post)

api_alert(al, metric, value, message, post) ==
    send_alert(al, "API Alert", message, "info",
               [wrapper |-> "api_alert", Metric |-> metric], post)

success_alert(al, service, message, post) ==
    send_alert(al, "Service Recovered", message, "success",
               [wrapper |-> "success_alert", Metric |-> service], post)

\* The alerter as an operation starts on it: no call made yet by this operation.
Alerter == [hist |-> alert_history, calls |-> <<>>]

\* The number of calls in a sequence of call records that returned True.
RECURSIVE Trues(_)
Trues(calls) ==
    IF calls = <<>> THEN 0
    ELSE (IF calls[1].ret = "True" THEN 1 ELSE 0) + Trues(Tail(calls))

\* Install the alerter state an operation leaves behind.
SetAlerter(al) ==
    /\ alert_history' = al.hist
    /\ sendCalls' = al.calls
    /\ trueReturns' = trueReturns + Trues(al.calls)


(***************************************************************************)
(* MetricMonitor.query_prometheus                                          *)
(***************************************************************************)
Absent == [present |-> FALSE, value |-> 0]
Present(v) == [present |-> TRUE, value |-> v]

\* What the GET to /api/v1/query can do.
PromValue(v) == [kind |-> "result", value |-> v]
PromEmpty == [kind |-> "empty", value |-> 0]
PromHttpError == [kind |-> "http_error", value |-> 0]
PromTimeout == [kind |-> "timeout", value |-> 0]
PromMalformed == [kind |-> "malformed", value |-> 0]

query_prometheus(resp) ==
    IF resp.kind = "result" THEN Present(resp.value) ELSE Absent

(***************************************************************************)
(* MetricMonitor.check_alerts: the eight rule blocks, in source order.     *)
(***************************************************************************)
Rules == 1..8

\* Python truthiness of a query result: None and 0.0 are both false.
Truthy(mv) == mv.present /\ mv.value # 0

\* Mutant: the two liveness probes tested by truthiness ("if not postgres_up").
ConditionNotUp(r, mv) ==
    CASE r = 1 -> Truthy(mv) /\ mv.value > 50
      [] r = 2 -> Truthy(mv) /\ mv.value > 1
      [] r = 3 -> Truthy(mv) /\ mv.value > 80
      [] r = 4 -> Truthy(mv) /\ mv.value > 85
      [] r = 5 -> Truthy(mv) /\ mv.value > 30
      [] r = 6 -> Truthy(mv) /\ mv.value < 40000
      [] r = 7 -> ~Truthy(mv)
      [] r = 8 -> ~Truthy(mv)

\* The condition of the if statement of rule block r.
Condition(r, mv) ==
    CASE r = 1 -> Truthy(mv) /\ mv.value > 50
      [] r = 2 -> Truthy(mv) /\ mv.value > 1
      [] r = 3 -> Truthy(mv) /\ mv.value > 80
      [] r = 4 -> Truthy(mv) /\ mv.value > 85
      [] r = 5 -> Truthy(mv) /\ mv.value > 30
      [] r = 6 -> Truthy(mv) /\ mv.value < 40000
      [] r = 7 -> mv.present /\ mv.value = 0
      [] r = 8 -> mv.present /\ mv.value = 0

MetricName(r) ==
    CASE r = 1 -> "Active Connections"
      [] r = 2 -> "Database Size"
      [] r = 3 -> "CPU Usage"
      [] r = 4 -> "Memory Usage"
      [] r = 5 -> "Weather Temperature"
      [] r = 6 -> "Bitcoin Price"
      [] r = 7 -> "PostgreSQL Status"
      [] r = 8 -> "Node Exporter"

\* The alerter call in the body of the if statement of rule block r.
Notify(r, al, mv, post) ==
    CASE r \in {1, 2, 7} ->
             database_alert(al, MetricName(r), mv.value, "threshold", "message", post)
      [] r \in {3, 4, 8} ->
             system_alert(al, MetricName(r), mv.value, "threshold", "message", post)
      [] r \in {5, 6} ->
             api_alert(al, MetricName(r), mv.value, "message", post)

\* One rule block: query, test, notify.
RuleBlock(r, al, mv, post) ==
    IF Condition(r, mv) THEN Notify(r, al, mv, post) ELSE al

(***************************************************************************)
(* The values the backend is made to return for each rule's query: absent, *)
(* zero, the threshold itself and a value past it (for the price rule also *)
(* a negative one and one just below the threshold).                       *)
(***************************************************************************)
Threshold(r) ==
    CASE r = 1 -> 50
      [] r = 2 -> 1
      [] r = 3 -> 80
      [] r = 4 -> 85
      [] r = 5 -> 30
      [] r = 6 -> 40000
      [] r \in {7, 8} -> 0

SampleValues(r) ==
    CASE r \in 1..5 -> {0, Threshold(r), Threshold(r) + 1}
      [] r = 6 -> {0 - 1, 0, Threshold(r) - 1, Threshold(r)}
      [] r \in {7, 8} -> {0, 1}

PromResponses(r) ==
    {PromValue(v) : v \in SampleValues(r)}
        \cup {PromEmpty, PromHttpError, PromTimeout, PromMalformed}

\* The webhook answers the model admits: a 200 only while the history has room.
Posts(hist) ==
    IF Len(hist) < MaxHistory THEN WebhookOutcomes
    ELSE WebhookOutcomes \ {HttpAnswer(200)}

\* A value strictly past the rule's threshold in the failing direction.
PastThreshold(r, mv) ==
    /\ mv.present
    /\ CASE r \in 1..5 -> mv.value > Threshold(r)
         [] r = 6 -> mv.value < Threshold(r)
         [] r \in {7, 8} -> mv.value = Threshold(r)

Bump(n) == Min(n + 1, MaxRun)


(***************************************************************************)
(* MetricMonitor.start_monitoring and the steps of check_alerts.           *)
(***************************************************************************)
\* Mutant: the fallback sleep grows with the number of consecutive failures.
SleepAfterBackoff(out, fails) ==
    IF out = "returned" THEN MONITORING_INTERVAL
    ELSE FALLBACK_INTERVAL * (fails + 1)

\* The argument of the sleep that follows one call of check_alerts.
SleepAfter(out, fails) ==
    IF out = "returned" THEN MONITORING_INTERVAL ELSE FALLBACK_INTERVAL

\* check_alerts runs its next rule block.
EvaluateRule ==
    /\ mpc = "check"
    /\ evaluated < 8
    /\ LET r == evaluated + 1
       IN \E resp \in PromResponses(r), post \in Posts(alert_history) :
            LET mv == query_prometheus(resp)
                al == RuleBlock(r, Alerter, mv, post)
            IN /\ SetAlerter(al)
               /\ evaluated' = r
               /\ lastVal' = mv
               /\ breachRun' = IF r # watch THEN breachRun
                                ELSE IF PastThreshold(r, mv) THEN Bump(breachRun)
                                ELSE 0
               /\ notifyRun' = IF r # watch THEN notifyRun
                                ELSE IF al.calls # <<>> THEN Bump(notifyRun)
                                ELSE 0
    /\ UNCHANGED <<alert_states, mpc, outcome, delay, failRun, watch, serverVars,
                   exporterVars>>

\* check_alerts returns; the loop goes to time.sleep(MONITORING_INTERVAL).
CheckAlertsReturns ==
    /\ mpc = "check"
    /\ evaluated = 8
    /\ outcome' = "returned"
    /\ mpc' = "sleep"
    /\ delay' = SleepAfter("returned", failRun)
    /\ failRun' = 0
    /\ UNCHANGED <<alerterVars, alert_states, evaluated, lastVal, watch,
                   breachRun, notifyRun, serverVars, exporterVars>>

\* An exception escapes check_alerts; the handler logs it and sleeps.
CheckAlertsRaises ==
    /\ mpc = "check"
    /\ outcome' = "raised"
    /\ mpc' = "sleep"
    /\ delay' = SleepAfter("raised", failRun)
    /\ failRun' = Bump(failRun)
    /\ breachRun' = 0
    /\ notifyRun' = 0
    /\ UNCHANGED <<alerterVars, alert_states, evaluated, lastVal, watch, serverVars,
                   exporterVars>>

\* The sleep ends; the while loop calls check_alerts again.
NextIteration ==
    /\ mpc = "sleep"
    /\ mpc' = "check"
    /\ evaluated' = 0
    /\ lastVal' = Absent
    /\ outcome' = "none"
    /\ delay' = 0
    /\ UNCHANGED <<alerterVars, alert_states, failRun, watch, breachRun, notifyRun,
                   serverVars, exporterVars>>

start_monitoring ==
    \/ EvaluateRule
    \/ CheckAlertsReturns
    \/ CheckAlertsRaises
    \/ NextIteration


(***************************************************************************)
(* Python strings, as sequences of characters: str.lower and `in`.         *)
(***************************************************************************)
Letters ==
    << <<"A", "a">>, <<"B", "b">>, <<"C", "c">>, <<"D", "d">>, <<"E", "e">>,
       <<"F", "f">>, <<"G", "g">>, <<"H", "h">>, <<"I", "i">>, <<"J", "j">>,
       <<"K", "k">>, <<"L", "l">>, <<"M", "m">>, <<"N", "n">>, <<"O", "o">>,
       <<"P", "p">>, <<"Q", "q">>, <<"R", "r">>, <<"S", "s">>, <<"T", "t">>,
       <<"U", "u">>, <<"V", "v">>, <<"W", "w">>, <<"X", "x">>, <<"Y", "y">>,
       <<"Z", "z">> >>

\* The lower-case letter of each upper-case letter.
LowerOf == [c \in {Letters[i][1] : i \in 1..26} |->
               Letters[CHOOSE i \in 1..26 : Letters[i][1] = c][2]]

LowerChar(c) == IF c \in DOMAIN LowerOf THEN LowerOf[c] ELSE c

\* Mutant: the name is matched as it is written.
lower_unchanged(str) == str

\* str.lower()
lower(str) == [i \in 1..Len(str) |-> LowerChar(str[i])]

\* sub in str
In(sub, str) ==
    \E i \in 0..(Len(str) - Len(sub)) : SubSeq(str, i + 1, i + Len(sub)) = sub

Str_database == <<"d", "a", "t", "a", "b", "a", "s", "e">>
Str_cpu == <<"c", "p", "u">>
Str_memory == <<"m", "e", "m", "o", "r", "y">>
Str_Unknown == <<"U", "n", "k", "n", "o", "w", "n">>

(***************************************************************************)
(* The alerts a client may post.  A key of an element is either there or   *)
(* not; alertname may also be JSON null.                                   *)
(***************************************************************************)
Str_Disk == <<"D", "i", "s", "k">>
Str_HighCPUUsage == <<"H", "i", "g", "h", "C", "P", "U", "U", "s", "a", "g", "e">>
Str_DatabaseDown == <<"D", "a", "t", "a", "b", "a", "s", "e", "D", "o", "w", "n">>
Str_HighMemory == <<"H", "i", "g", "h", "M", "e", "m", "o", "r", "y">>
Str_CPUDatabase == <<"C", "P", "U", "D", "a", "t", "a", "b", "a", "s", "e">>

\* alertname: [kind |-> "str" | "null" | "missing", str |-> characters]
Name(str) == [kind |-> "str", str |-> str]
NameMissing == [kind |-> "missing", str |-> <<>>]
NameNull == [kind |-> "null", str |-> <<>>]

AlertElement(name, status, hasDescription) ==
    [hasLabels |-> TRUE, alertname |-> name, hasStatus |-> TRUE, status |-> status,
     hasAnnotations |-> TRUE, hasDescription |-> hasDescription]

SampleAlerts ==
    { AlertElement(Name(Str_HighCPUUsage), "firing", TRUE),
      AlertElement(Name(Str_DatabaseDown), "firing", TRUE),
      AlertElement(Name(Str_HighMemory), "firing", FALSE),
      AlertElement(Name(Str_CPUDatabase), "firing", TRUE),
      AlertElement(Name(Str_Disk), "firing", TRUE),
      AlertElement(NameMissing, "firing", TRUE),
      AlertElement(NameNull, "firing", TRUE),
      AlertElement(Name(Str_Disk), "resolved", FALSE),
      AlertElement(Name(Str_CPUDatabase), "resolved", TRUE),
      [AlertElement(Name(Str_Disk), "firing", TRUE) EXCEPT !.hasLabels = FALSE],
      [AlertElement(Name(Str_Disk), "firing", TRUE) EXCEPT !.hasStatus = FALSE],
      [AlertElement(Name(Str_DatabaseDown), "resolved", FALSE)
           EXCEPT !.hasAnnotations = FALSE] }

Batches == UNION {[1..n -> SampleAlerts] : n \in 0..MaxBatch}

\* A request body: not JSON at all, JSON null, or an object with or without
\* the key "alerts".
BodyUnparsable == [kind |-> "unparsable", hasAlerts |-> FALSE, alerts |-> <<>>]
BodyNull == [kind |-> "null", hasAlerts |-> FALSE, alerts |-> <<>>]
BodyEmptyObject == [kind |-> "empty_object", hasAlerts |-> FALSE, alerts |-> <<>>]
BodyOtherObject == [kind |-> "object", hasAlerts |-> FALSE, alerts |-> <<>>]
BodyAlerts(batch) == [kind |-> "object", hasAlerts |-> TRUE, alerts |-> batch]

Bodies ==
    {BodyUnparsable, BodyNull, BodyEmptyObject, BodyOtherObject}
        \cup {BodyAlerts(b) : b \in Batches}

NoRequest == [kind |-> "none", hasAlerts |-> FALSE, alerts |-> <<>>]
NoResponse == [code |-> 0, text |-> ""]
\* The request being answered is not a second post of the same body.
NoPost == [posted |-> FALSE, served |-> <<>>, history |-> 0]

(***************************************************************************)
(* process_prometheus_alert                                                *)
(***************************************************************************)
\* Mutant: an exception takes back the notifications of the request so far.
Raised_rollback(text, al) ==
    [raised |-> TRUE, text |-> text,
     al |-> [hist |-> SubSeq(al.hist, 1, Len(al.hist) - Trues(al.calls)),
             calls |-> <<>>]]

Raised(text, al) == [raised |-> TRUE, text |-> text, al |-> al]
Returned(al) == [raised |-> FALSE, text |-> "", al |-> al]

\* alert['labels'].get('alertname', 'Unknown')
alertname_of(alert) ==
    IF alert.alertname.kind = "missing" THEN Name(Str_Unknown) ELSE alert.alertname

\* Mutant: the name is classified before the status is looked at.
process_prometheus_alert_by_name(alert, al, post) ==
    IF ~alert.hasLabels THEN Raised("KeyError: 'labels'", al)
    ELSE IF ~alert.hasStatus THEN Raised("KeyError: 'status'", al)
    ELSE IF ~alert.hasAnnotations THEN Raised("KeyError: 'annotations'", al)
    ELSE LET alertname == alertname_of(alert)
             low == lower(alertname.str)
         IN IF alertname.kind = "str" /\ In(Str_database, low)
            THEN Returned(database_alert(al, alertname, "Problem detected",
                                         "Normal", "description", post))
            ELSE IF alert.status = "resolved"
            THEN Returned(success_alert(al, alertname, "Alert resolved", post))
            ELSE IF alertname.kind # "str"
            THEN Raised("AttributeError: lower", al)
            ELSE IF In(Str_cpu, low) \/ In(Str_memory, low)
            THEN Returned(system_alert(al, alertname, "Problem detected",
                                       "Normal", "description", post))
            ELSE Returned(api_alert(al, alertname, "Problem detected",
                                    "description", post))

process_prometheus_alert(alert, al, post) ==
    IF ~alert.hasLabels THEN Raised("KeyError: 'labels'", al)
    ELSE IF ~alert.hasStatus THEN Raised("KeyError: 'status'", al)
    ELSE IF ~alert.hasAnnotations THEN Raised("KeyError: 'annotations'", al)
    ELSE LET alertname == alertname_of(alert)
             low == lower(alertname.str)
         IN IF alert.status = "resolved"
            THEN Returned(success_alert(al, alertname, "Alert resolved", post))
            ELSE IF alertname.kind # "str"
            THEN Raised("AttributeError: lower", al)
            ELSE IF In(Str_database, low)
            THEN Returned(database_alert(al, alertname, "Problem detected",
                                         "Normal", "description", post))
            ELSE IF In(Str_cpu, low) \/ In(Str_memory, low)
            THEN Returned(system_alert(al, alertname, "Problem detected",
                                       "Normal", "description", post))
            ELSE Returned(api_alert(al, alertname, "Problem detected",
                                    "description", post))

(***************************************************************************)
(* handle_alert                                                            *)
(***************************************************************************)
\* request.json: a body that is not JSON makes Flask raise BadRequest.
request_json(body) ==
    IF body.kind = "unparsable"
    THEN [raised |-> TRUE, text |-> "400 Bad Request"]
    ELSE [raised |-> FALSE, text |-> ""]

\* not data or 'alerts' not in data
InvalidAlertData(body) ==
    body.kind \in {"null", "empty_object"} \/ ~body.hasAlerts

\* for alert in data['alerts']: process_prometheus_alert(alert, alerter)
\* st is [raised, text, al, served]; the loop stops at the first exception.
RECURSIVE ForAlerts(_, _, _, _)
ForAlerts(alerts, i, st, posts) ==
    IF i > Len(alerts) THEN st
    ELSE LET r == process_prometheus_alert(alerts[i], st.al, posts[i])
         IN IF r.raised
            THEN [raised |-> TRUE, text |-> r.text, al |-> r.al, served |-> st.served]
            ELSE ForAlerts(alerts, i + 1,
                     [raised |-> FALSE, text |-> "", al |-> r.al,
                      served |-> Append(st.served,
                                     SubSeq(r.al.calls, Len(st.al.calls) + 1,
                                            Len(r.al.calls)))],
                     posts)

\* Mutant: an exception in the loop is answered like invalid data.
HandleAlert_400(body, al, posts) ==
    LET start == [raised |-> FALSE, text |-> "", al |-> al, served |-> <<>>]
        json == request_json(body)
    IN IF json.raised
       THEN [st |-> start, response |-> [code |-> 500, text |-> json.text]]
       ELSE IF InvalidAlertData(body)
       THEN [st |-> start, response |-> [code |-> 400, text |-> "Invalid alert data"]]
       ELSE LET st == ForAlerts(body.alerts, 1, start, posts)
            IN IF st.raised
               THEN [st |-> st, response |-> [code |-> 400, text |-> st.text]]
               ELSE [st |-> st, response |-> [code |-> 200, text |-> "success"]]

\* The whole handler on one request: the state of the alerter it leaves, the
\* per-element calls, and the response.
HandleAlert(body, al, posts) ==
    LET start == [raised |-> FALSE, text |-> "", al |-> al, served |-> <<>>]
        json == request_json(body)
    IN IF json.raised
       THEN [st |-> start, response |-> [code |-> 500, text |-> json.text]]
       ELSE IF InvalidAlertData(body)
       THEN [st |-> start, response |-> [code |-> 400, text |-> "Invalid alert data"]]
       ELSE LET st == ForAlerts(body.alerts, 1, start, posts)
            IN IF st.raised
               THEN [st |-> st, response |-> [code |-> 500, text |-> st.text]]
               ELSE [st |-> st, response |-> [code |-> 200, text |-> "success"]]

\* What the webhook does during one request: per element, a 200, an error
\* status or a transport failure.
BatchOutcomes == {HttpAnswer(200), HttpAnswer(500), TransportError}

\* A client posts to /alert and handle_alert answers.
handle_alert ==
    /\ request = NoRequest
    /\ \E body \in Bodies :
         \E posts \in [1..Len(body.alerts) -> BatchOutcomes] :
            LET h == HandleAlert(body, Alerter, posts)
            IN /\ Len(h.st.al.hist) <= MaxHistory
               /\ SetAlerter(h.st.al)
               /\ request' = body
               /\ response' = h.response
               /\ served' = h.st.served
    /\ historyAtPost' = Len(alert_history)
    /\ firstPost' = NoPost
    /\ UNCHANGED <<monitorVars, exporterVars>>

\* The client got a 500 and posts the same body again: handle_alert runs on
\* it with the alerter as the first post left it.
RePost ==
    /\ request # NoRequest
    /\ response.code = 500
    /\ ~firstPost.posted
    /\ \E posts \in [1..Len(request.alerts) -> BatchOutcomes] :
          LET h == HandleAlert(request, Alerter, posts)
          IN /\ Len(h.st.al.hist) <= MaxHistory
             /\ SetAlerter(h.st.al)
             /\ response' = h.response
             /\ served' = h.st.served
    /\ historyAtPost' = Len(alert_history)
    /\ firstPost' = [posted |-> TRUE, served |-> served,
                     history |-> Len(alert_history)]
    /\ UNCHANGED <<request, monitorVars, exporterVars>>

\* The response is sent and the request context torn down.
RequestDone ==
    /\ request # NoRequest
    /\ request' = NoRequest
    /\ response' = NoResponse
    /\ served' = <<>>
    /\ sendCalls' = <<>>
    /\ historyAtPost' = 0
    /\ firstPost' = NoPost
    /\ UNCHANGED <<alert_history, trueReturns, monitorVars, exporterVars>>

ServerNext ==
    \/ handle_alert
    \/ RePost
    \/ RequestDone

(***************************************************************************)
(* The wrappers called directly, as test_all_alerts does.                  *)
(***************************************************************************)
CallDatabaseAlert ==
    /\ \E post \in Posts(alert_history) :
         SetAlerter(database_alert(Alerter, "Active Connections", 95, 50, "message", post))
    /\ UNCHANGED <<monitorVars, serverVars, exporterVars>>

CallSystemAlert ==
    /\ \E post \in Posts(alert_history) :
         SetAlerter(system_alert(Alerter, "CPU Usage", 85, 80, "message", post))
    /\ UNCHANGED <<monitorVars, serverVars, exporterVars>>

CallApiAlert ==
    /\ \E post \in Posts(alert_history) :
         SetAlerter(api_alert(Alerter, "Weather Temperature", 35, "message", post))
    /\ UNCHANGED <<monitorVars, serverVars, exporterVars>>

CallSuccessAlert ==
    /\ \E post \in Posts(alert_history) :
         SetAlerter(success_alert(Alerter, "PostgreSQL", "message", post))
    /\ UNCHANGED <<monitorVars, serverVars, exporterVars>>

\* send_alert called with a type of the colour table or an unknown one.
CallSendAlert ==
    /\ \E alert_type \in {"info", "warning", "error", "success", "critical"} :
         \E post \in Posts(alert_history) :
            SetAlerter(send_alert(Alerter, "Notice", "message", alert_type,
                                  [wrapper |-> "send_alert", Metric |-> ""], post))
    /\ UNCHANGED <<monitorVars, serverVars, exporterVars>>

AlerterNext ==
    \/ CallDatabaseAlert
    \/ CallSystemAlert
    \/ CallApiAlert
    \/ CallSuccessAlert
    \/ CallSendAlert


(***************************************************************************)
(* custom_exporter.py: the four fetches and main_loop.                     *)
(*                                                                         *)
(* ex is [gauges, errors, observed]: the registry a fetch works on.  Time  *)
(* passes in the sleep of main_loop only.                                  *)
(***************************************************************************)
Apis == {"weather", "crypto", "exchange"}

\* What the GET of a fetch can bring: a complete answer, a timeout, a status
\* that raise_for_status rejects, or JSON that lacks a field (`upto` fields
\* of the answer are read before the KeyError).
Answer(kind, upto, data) == [kind |-> kind, upto |-> upto, data |-> data]

WeatherAnswers ==
    {Answer("ok", 4, <<t, 12, 60, 24000>>) : t \in {0 - 5, 35}}
        \cup {Answer("timeout", 0, <<>>), Answer("http_error", 0, <<>>),
              Answer("malformed", 0, <<35, 12, 60, 24000>>),
              Answer("malformed", 2, <<35, 12, 60, 24000>>)}

CryptoAnswers ==
    {Answer("ok", 3, <<b, 3000, 1200, 400>>) : b \in {39000, 65000}}
        \cup {Answer("timeout", 0, <<>>), Answer("http_error", 0, <<>>),
              Answer("malformed", 2, <<65000, 3000, 1200, 400>>)}

\* The two GETs of fetch_exchange_rates: upto counts the rates read.
ExchangeAnswers ==
    {Answer("ok", 2, <<480, 520>>), Answer("timeout", 0, <<>>),
     Answer("http_error", 1, <<480, 520>>), Answer("malformed", 1, <<480, 520>>)}

StaticAnswer == Answer("ok", 0, <<>>)

SetGauge(ex, name, value) == [ex EXCEPT !.gauges[name] = value]
IncError(ex, api) == [ex EXCEPT !.errors[api] = @ + 1]
Observe(ex, api) == [ex EXCEPT !.observed[api] = @ + 1]

\* The result of a fetch: the registry and the value returned.
Fetched(ex, ok) == [ex |-> ex, ok |-> ok]

fetch_weather_data(ex, ans) ==
    LET d == ans.data
        e1 == IF ans.upto >= 1 THEN SetGauge(ex, "weather_temperature", d[1]) ELSE ex
        e2 == IF ans.upto >= 2 THEN SetGauge(e1, "weather_windspeed", d[2]) ELSE e1
        e3 == IF ans.upto >= 3 THEN SetGauge(e2, "weather_humidity", d[3]) ELSE e2
        e4 == IF ans.upto >= 4
              THEN SetGauge(e3, "weather_visibility", d[4] \div 1000) ELSE e3
    IN IF ans.kind = "ok"
       THEN Fetched(Observe(SetGauge(e4, "weather_api_status", 1), "weather"), TRUE)
       ELSE Fetched(IncError(SetGauge(e4, "weather_api_status", 0), "weather"), FALSE)

fetch_crypto_data(ex, ans) ==
    LET d == ans.data
        e1 == IF ans.upto >= 1 THEN SetGauge(ex, "crypto_bitcoin_price", d[1]) ELSE ex
        e2 == IF ans.upto >= 2 THEN SetGauge(e1, "crypto_ethereum_price", d[2]) ELSE e1
        e3 == IF ans.upto >= 3
              THEN SetGauge(e2, "crypto_market_cap", d[3] + d[4]) ELSE e2
    IN IF ans.kind = "ok"
       THEN Fetched(Observe(SetGauge(e3, "crypto_api_status", 1), "crypto"), TRUE)
       ELSE Fetched(IncError(SetGauge(e3, "crypto_api_status", 0), "crypto"), FALSE)

fetch_exchange_rates(ex, ans) ==
    LET d == ans.data
        e1 == IF ans.upto >= 1 THEN SetGauge(ex, "exchange_rate_usd", d[1]) ELSE ex
        e2 == IF ans.upto >= 2 THEN SetGauge(e1, "exchange_rate_eur", d[2]) ELSE e1
    IN IF ans.kind = "ok"
       THEN Fetched(Observe(e2, "exchange"), TRUE)
       ELSE Fetched(IncError(e2, "exchange"), FALSE)

fetch_static_data(ex, t) ==
    Fetched(SetGauge(SetGauge(SetGauge(ex, "astana_population", ASTANA_POPULATION),
                              "current_timestamp", t),
                     "random_metric", t % 100),
            TRUE)

Registry == [gauges |-> gauges, errors |-> error_counter, observed |-> api_response_time]

SetRegistry(ex) ==
    /\ gauges' = ex.gauges
    /\ error_counter' = ex.errors
    /\ api_response_time' = ex.observed

\* Mutant: the failure of the weather fetch leaves the try block of main_loop.
AfterWeather_raise(ok) == IF ok THEN "crypto" ELSE "sleep"

\* Where main_loop goes after fetch_weather_data returned ok (True or False).
AfterWeather(ok) == "crypto"

\* main_loop: exporter_uptime.set(time.time() - start_time)
SetUptime ==
    /\ epc = "uptime"
    /\ gauges' = [gauges EXCEPT !["exporter_uptime"] = now]
    /\ fetched' = <<>>
    /\ errorsAtTick' = error_counter
    /\ epc' = "weather"
    /\ UNCHANGED <<error_counter, api_response_time, now, alerterVars, monitorVars,
                   serverVars>>

FetchWeather ==
    /\ epc = "weather"
    /\ \E ans \in WeatherAnswers :
         LET r == fetch_weather_data(Registry, ans)
         IN /\ SetRegistry(r.ex)
            /\ fetched' = Append(fetched, [fetch |-> "weather", answer |-> ans,
                                           ok |-> r.ok])
            /\ epc' = AfterWeather(r.ok)
    /\ UNCHANGED <<now, errorsAtTick, alerterVars, monitorVars, serverVars>>

FetchCrypto ==
    /\ epc = "crypto"
    /\ \E ans \in CryptoAnswers :
         LET r == fetch_crypto_data(Registry, ans)
         IN /\ SetRegistry(r.ex)
            /\ fetched' = Append(fetched, [fetch |-> "crypto", answer |-> ans,
                                           ok |-> r.ok])
    /\ epc' = "exchange"
    /\ UNCHANGED <<now, errorsAtTick, alerterVars, monitorVars, serverVars>>

FetchExchange ==
    /\ epc = "exchange"
    /\ \E ans \in ExchangeAnswers :
         LET r == fetch_exchange_rates(Registry, ans)
         IN /\ SetRegistry(r.ex)
            /\ fetched' = Append(fetched, [fetch |-> "exchange", answer |-> ans,
                                           ok |-> r.ok])
    /\ epc' = "static"
    /\ UNCHANGED <<now, errorsAtTick, alerterVars, monitorVars, serverVars>>

FetchStatic ==
    /\ epc = "static"
    /\ LET r == fetch_static_data(Registry, now)
       IN /\ SetRegistry(r.ex)
          /\ fetched' = Append(fetched, [fetch |-> "static", answer |-> StaticAnswer,
                                         ok |-> r.ok])
    /\ epc' = "sleep"
    /\ UNCHANGED <<now, errorsAtTick, alerterVars, monitorVars, serverVars>>

\* time.sleep(20), then the next tick.
Sleep ==
    /\ epc = "sleep"
    /\ now < MaxTicks * EXPORT_INTERVAL
    /\ now' = now + EXPORT_INTERVAL
    /\ epc' = "uptime"
    /\ UNCHANGED <<gauges, error_counter, api_response_time, fetched, errorsAtTick,
                   alerterVars, monitorVars, serverVars>>

main_loop ==
    \/ SetUptime
    \/ FetchWeather
    \/ FetchCrypto
    \/ FetchExchange
    \/ FetchStatic
    \/ Sleep

GaugeNames ==
    {"weather_temperature", "weather_windspeed", "weather_humidity",
     "weather_visibility", "crypto_bitcoin_price", "crypto_ethereum_price",
     "crypto_market_cap", "exchange_rate_usd", "exchange_rate_eur",
     "weather_api_status", "crypto_api_status", "exporter_uptime",
     "astana_population", "current_timestamp", "random_metric"}

(***************************************************************************)
(* Initial state: TeamsAlerter.__init__, MetricMonitor.__init__ and the     *)
(* server before any request.                                              *)
(***************************************************************************)
Constructed ==
    /\ alert_history = <<>>
    /\ sendCalls = <<>>
    /\ trueReturns = 0
    /\ alert_states = {}
    /\ mpc = "check"
    /\ evaluated = 0
    /\ lastVal = Absent
    /\ outcome = "none"
    /\ delay = 0
    /\ failRun = 0
    /\ breachRun = 0
    /\ notifyRun = 0
    /\ request = NoRequest
    /\ response = NoResponse
    /\ served = <<>>
    /\ historyAtPost = 0
    /\ firstPost = NoPost
    /\ gauges = [g \in GaugeNames |-> 0]
    /\ error_counter = [a \in Apis |-> 0]
    /\ api_response_time = [a \in Apis |-> 0]
    /\ now = 0
    /\ epc = "uptime"
    /\ fetched = <<>>
    /\ errorsAtTick = [a \in Apis |-> 0]

\* Any of the eight rules may be the watched one.
MonitorInit == Constructed /\ watch \in Rules
Init == Constructed /\ watch = 1

MonitorNext == start_monitoring
MonitorSpec == MonitorInit /\ [][MonitorNext]_vars
MonitorLive == MonitorSpec /\ WF_vars(MonitorNext)
ServerSpec == Init /\ [][ServerNext]_vars
AlerterSpec == Init /\ [][AlerterNext]_vars
ExporterNext == main_loop
ExporterSpec == Init /\ [][ExporterNext]_vars


(***************************************************************************)
(* Claims about MetricMonitor (specifications MonitorSpec, MonitorLive).   *)
(*                                                                         *)
(* After a rule block has run, `evaluated` is the rule it belongs to,      *)
(* lastVal the value its query returned and sendCalls the alerter calls    *)
(* the block made.                                                         *)
(***************************************************************************)
\* The wrapper and category of each rule's domain, as the specification has them.
DomainWrapper(r) ==
    CASE r \in {1, 2, 7} -> "database_alert"
      [] r \in {3, 4, 8} -> "system_alert"
      [] r \in {5, 6} -> "api_alert"

DomainCategory(r) ==
    CASE r \in {1, 2, 7} -> "error"
      [] r \in {3, 4, 8} -> "warning"
      [] r \in {5, 6} -> "info"

\* C1: in a tick, a rule whose query returned a present value strictly past
\* the rule's threshold in the failing direction has the wrapper of its domain
\* invoked exactly once, with that domain's category.
C1_Claim ==
    (evaluated >= 1 /\ PastThreshold(evaluated, lastVal)) =>
        /\ Len(sendCalls) = 1
        /\ sendCalls[1].wrapper = DomainWrapper(evaluated)
        /\ sendCalls[1].alert_type = DomainCategory(evaluated)

\* C2: a rule block whose query returned absent makes no wrapper call and
\* no send_alert call, leaves the alert history alone and does not end the
\* call of check_alerts: control stays in check_alerts, at the next rule.
C2_AbsentSkipped ==
    [][(evaluated' = evaluated + 1 /\ ~lastVal'.present) =>
           /\ sendCalls' = <<>>
           /\ alert_history' = alert_history
           /\ trueReturns' = trueReturns
           /\ mpc' = "check"
           /\ outcome' = "none"]_vars

\* C2 witness: the pg_up query returned absent, nothing was sent for it and
\* check_alerts goes on to the last rule.
C2_Witness ==
    /\ mpc = "check"
    /\ evaluated = 7
    /\ ~lastVal.present
    /\ sendCalls = <<>>

\* C9: start_monitoring never leaves its loop; a call of check_alerts that
\* returned is followed by a sleep of 30, one that raised by a sleep of 10
\* and by nothing else (no state of the alerter or the monitor changes),
\* however many iterations failed in a row; and every sleep is followed by
\* a new call of check_alerts.
C9_LoopForever ==
    /\ [](mpc \in {"check", "sleep"})
    /\ [][(mpc = "check" /\ mpc' # "check") =>
             /\ mpc' = "sleep"
             /\ outcome' \in {"returned", "raised"}
             /\ outcome' = "returned" => delay' = 30
             /\ outcome' = "raised" =>
                    /\ delay' = 10
                    /\ UNCHANGED <<alert_history, alert_states, evaluated>>]_vars
    /\ [](mpc = "sleep" => <>(mpc = "check" /\ evaluated = 0))

\* C9 witness: the loop is in the fallback sleep of 10 after MaxRun
\* consecutive failed iterations.
C9_Witness ==
    /\ mpc = "sleep"
    /\ outcome = "raised"
    /\ failRun = MaxRun
    /\ delay = 10

\* C10: a rule in breach in N consecutive ticks has its wrapper invoked in
\* each of the N ticks (here for the watched rule, N = MaxRun), and
\* alert_states is never written.
C10_Claim ==
    /\ breachRun = MaxRun => notifyRun = MaxRun
    /\ alert_states = {}


(***************************************************************************)
(* Claim about TeamsAlerter.send_alert (specification AlerterSpec).        *)
(***************************************************************************)
\* C3: send_alert returns True exactly when the POST was answered with 200
\* and False (never an exception) for any other status or a transport
\* failure; after any sequence of calls the history holds as many entries as
\* calls returned True.
C3_HistoryCountsTrue ==
    /\ Len(alert_history) = trueReturns
    /\ \A i \in DOMAIN sendCalls :
          /\ sendCalls[i].ret \in {"True", "False"}
          /\ sendCalls[i].ret = "True" <=> sendCalls[i].post = HttpAnswer(200)

\* C3 witness: after two delivered alerts a call answered 204 returned
\* False and left the history at two entries.
C3_Witness ==
    /\ Len(alert_history) = 2
    /\ trueReturns = 2
    /\ Len(sendCalls) = 1
    /\ sendCalls[1].post = HttpAnswer(204)
    /\ sendCalls[1].ret = "False"

(***************************************************************************)
(* Claims about POST /alert (specification ServerSpec).                    *)
(*                                                                         *)
(* While a request is being answered, `request` is its body, `response`    *)
(* the answer, sendCalls every alerter call the handler made and served    *)
(* the calls made for each element that was processed without exception.   *)
(***************************************************************************)
Elements == 1..Len(request.alerts)
Element(i) == request.alerts[i]
IsResolved(e) == e.hasStatus /\ e.status = "resolved"
HasKeys(e) == e.hasLabels /\ e.hasStatus /\ e.hasAnnotations

\* The elements on which process_prometheus_alert raises, and with what.
Raises(e) == ~HasKeys(e) \/ (~IsResolved(e) /\ e.alertname.kind = "null")
ErrorText(e) ==
    IF ~e.hasLabels THEN "KeyError: 'labels'"
    ELSE IF ~e.hasStatus THEN "KeyError: 'status'"
    ELSE IF ~e.hasAnnotations THEN "KeyError: 'annotations'"
    ELSE "AttributeError: lower"

\* Element i is reached: no element before it raised.
Reached(i) == \A j \in 1..(i - 1) : ~Raises(Element(j))

RECURSIVE Flatten(_)
Flatten(seqs) == IF seqs = <<>> THEN <<>> ELSE Head(seqs) \o Flatten(Tail(seqs))

\* C4: a body that is not JSON, and a parsed body without the key "alerts",
\* are both answered 400, and no wrapper is invoked.
C4_Claim ==
    (request.kind # "none" /\ ~request.hasAlerts) =>
        /\ response.code = 400
        /\ sendCalls = <<>>

\* C5: every resolved element the handler reaches that has its labels,
\* status and annotations gets exactly one call, success_alert with its
\* alert name, whatever the name contains and with or without a
\* description; and no call at all is made for the elements that are not
\* processed, so that no resolved element ever reaches database_alert,
\* system_alert or api_alert.
C5_ResolvedRecovers ==
    /\ sendCalls = Flatten(served)
    /\ \A i \in Elements :
          (IsResolved(Element(i)) /\ HasKeys(Element(i)) /\ Reached(i)) =>
              /\ i <= Len(served)
              /\ Len(served[i]) = 1
              /\ served[i][1].wrapper = "success_alert"
              /\ served[i][1].metric = alertname_of(Element(i))
    /\ \A i \in Elements :
          (IsResolved(Element(i)) /\ i <= Len(served)) =>
              \A k \in DOMAIN served[i] : served[i][k].wrapper = "success_alert"

\* C5 witness: the second element is resolved, is named CPUDatabase, and
\* went to success_alert after a firing first element.
C5_Witness ==
    /\ Len(request.alerts) = 2
    /\ ~IsResolved(Element(1))
    /\ IsResolved(Element(2))
    /\ Element(2).alertname = Name(Str_CPUDatabase)
    /\ Len(served) = 2
    /\ served[2][1].wrapper = "success_alert"

\* The wrapper the specification gives each sample name.
ExpectedWrapper(name) ==
    CASE name = Name(Str_HighCPUUsage) -> "system_alert"
      [] name = Name(Str_HighMemory) -> "system_alert"
      [] name = Name(Str_DatabaseDown) -> "database_alert"
      [] name = Name(Str_CPUDatabase) -> "database_alert"
      [] name = Name(Str_Disk) -> "api_alert"
      [] name = NameMissing -> "api_alert"

\* C6: every element that is not resolved, is reached and has its keys and
\* a string (or no) alertname gets exactly one call: database_alert when
\* the lower-cased name contains "database", else system_alert when it
\* contains "cpu" or "memory", else api_alert (a missing alertname is
\* "Unknown").
C6_FiringRouted ==
    \A i \in Elements :
        (~IsResolved(Element(i)) /\ ~Raises(Element(i)) /\ Reached(i)) =>
            /\ i <= Len(served)
            /\ Len(served[i]) = 1
            /\ served[i][1].wrapper = ExpectedWrapper(Element(i).alertname)
            /\ served[i][1].metric = alertname_of(Element(i))

\* C6 witness: HighCPUUsage went to system_alert and CPUDatabase to
\* database_alert in one batch, answered 200.
C6_Witness ==
    /\ Len(request.alerts) = 2
    /\ Element(1).alertname = Name(Str_HighCPUUsage)
    /\ Element(2).alertname = Name(Str_CPUDatabase)
    /\ ~IsResolved(Element(1))
    /\ ~IsResolved(Element(2))
    /\ Len(served) = 2
    /\ served[1][1].wrapper = "system_alert"
    /\ served[2][1].wrapper = "database_alert"
    /\ response.code = 200

\* C7: a body with an "alerts" list is answered 200 "success" when no
\* element raises, whatever the sends returned and also for the empty list,
\* and 500 with the text of the exception when an element raises; every
\* request gets an answer (no exception leaves the handler).
C7_Answered ==
    /\ request.kind # "none" => response.code \in {200, 400, 500}
    /\ request.hasAlerts =>
          IF \A i \in Elements : ~Raises(Element(i))
          THEN /\ response = [code |-> 200, text |-> "success"]
               /\ Len(served) = Len(request.alerts)
          ELSE LET k == CHOOSE i \in Elements : Raises(Element(i)) /\ Reached(i)
               IN /\ response = [code |-> 500, text |-> ErrorText(Element(k))]
                  /\ Len(served) = k - 1

\* C7 witness: the second element has no annotations; the answer is 500
\* with the KeyError, after the first element was forwarded (its send failed).
C7_Witness ==
    /\ Len(request.alerts) = 2
    /\ ~Element(2).hasAnnotations
    /\ response = [code |-> 500, text |-> "KeyError: 'annotations'"]
    /\ Len(served) = 1
    /\ served[1][1].ret = "False"

\* The first element of the request on which process_prometheus_alert raises
\* (0: none does).
FirstRaising ==
    IF \E i \in Elements : Raises(Element(i))
    THEN CHOOSE i \in Elements : Raises(Element(i)) /\ Reached(i)
    ELSE 0

\* C11: a batch is not handled atomically. When element k is the first to
\* raise, the answer is 500; the elements before k were each forwarded to
\* exactly one wrapper, in list order; element k and the elements after it
\* were forwarded to none; what the sends before k appended to
\* alert_history stays there. When the client posts the same body again
\* after the 500, the elements before k are forwarded again, each to the
\* wrapper it went to the first time, on top of what the first post left.
C11_BatchNotAtomic ==
    (request.hasAlerts /\ FirstRaising # 0) =>
        LET k == FirstRaising
        IN /\ response.code = 500
           /\ Len(sendCalls) = k - 1
           /\ Len(served) = k - 1
           /\ \A i \in 1..(k - 1) :
                 /\ served[i] = <<sendCalls[i]>>
                 /\ sendCalls[i].metric = alertname_of(Element(i))
                 /\ sendCalls[i].wrapper \in
                       {"database_alert", "system_alert", "api_alert", "success_alert"}
           /\ Len(alert_history) = historyAtPost + Trues(sendCalls)
           /\ firstPost.posted =>
                 /\ Len(firstPost.served) = k - 1
                 /\ \A i \in 1..(k - 1) :
                       /\ sendCalls[i].wrapper = firstPost.served[i][1].wrapper
                       /\ sendCalls[i].metric = firstPost.served[i][1].metric
                 /\ historyAtPost = firstPost.history
                 /\ Len(alert_history) >= firstPost.history

\* C11 witness: a batch whose second element has no annotations was posted
\* twice; both posts were answered 500 and both sent the notification of
\* the first element, so that alert_history holds it twice.
C11_Witness ==
    /\ firstPost.posted
    /\ Len(request.alerts) = 2
    /\ ~Raises(Element(1))
    /\ ~Element(2).hasAnnotations
    /\ response.code = 500
    /\ Len(firstPost.served) = 1
    /\ firstPost.served[1][1].ret = "True"
    /\ Len(sendCalls) = 1
    /\ sendCalls[1].ret = "True"
    /\ Len(alert_history) >= 2


(***************************************************************************)
(* Claim about the exporter (specification ExporterSpec).                  *)
(*                                                                         *)
(* When main_loop reaches its sleep, fetched holds the fetches of the tick *)
(* in the order they ran, each with the answer it got and the value it     *)
(* returned.                                                               *)
(***************************************************************************)
FetchOrder == [i \in 1..Len(fetched) |-> fetched[i].fetch]
GrewBy(api, n) == error_counter[api] = errorsAtTick[api] + n

\* C8: after a tick whose weather fetch failed, weather_api_status is 0 and
\* api_errors_total{weather} has grown by exactly 1; the crypto, exchange
\* and static fetches each ran once, in that order, each with the result its
\* own answer gives, and the other sources' error counters grew only by
\* their own failures.
C8_WeatherFailureIsolated ==
    (epc = "sleep" /\ fetched # <<>> /\ fetched[1].answer.kind # "ok") =>
        /\ gauges["weather_api_status"] = 0
        /\ GrewBy("weather", 1)
        /\ FetchOrder = <<"weather", "crypto", "exchange", "static">>
        /\ \A i \in 1..4 : fetched[i].ok <=> fetched[i].answer.kind = "ok"
        /\ GrewBy("crypto", IF fetched[2].ok THEN 0 ELSE 1)
        /\ GrewBy("exchange", IF fetched[3].ok THEN 0 ELSE 1)
        /\ gauges["crypto_api_status"] = IF fetched[2].ok THEN 1 ELSE 0
        /\ fetched[2].ok =>
              /\ gauges["crypto_bitcoin_price"] = fetched[2].answer.data[1]
              /\ gauges["crypto_ethereum_price"] = fetched[2].answer.data[2]
              /\ gauges["crypto_market_cap"] =
                     fetched[2].answer.data[3] + fetched[2].answer.data[4]
        /\ fetched[3].ok =>
              /\ gauges["exchange_rate_usd"] = fetched[3].answer.data[1]
              /\ gauges["exchange_rate_eur"] = fetched[3].answer.data[2]
        /\ gauges["astana_population"] = 1300000
        /\ gauges["current_timestamp"] = now
        /\ gauges["random_metric"] = now % 100

\* C8 witness: in the second tick the weather request timed out, and the
\* crypto and exchange fetches succeeded.
C8_Witness ==
    /\ epc = "sleep"
    /\ now = 20
    /\ Len(fetched) = 4
    /\ fetched[1].answer.kind = "timeout"
    /\ fetched[2].ok
    /\ fetched[3].ok
    /\ gauges["weather_api_status"] = 0
    /\ gauges["crypto_api_status"] = 1

=============================================================================
